---- MODULE Spec2Model ----
(***************************************************************************)
(* Holy Grail Chat: the orchestration core of bravo-revos.                 *)
(*                                                                         *)
(*   core/validation.py    InputValidator                                  *)
(*   core/orchestrator.py  HGCOrchestrator                                 *)
(*   tools/revos_tools.py  RevOSTools                                      *)
(*   server.py             the FastAPI front door                          *)
(*                                                                         *)
(* Text is a sequence of code points (Python str), so that the regular     *)
(* expressions, strip() and lower() are computed as Python computes them.  *)
(* A bearer token is a sequence of words, so that the header round trip    *)
(* f'Bearer {t}' / .replace('Bearer ', '') is computed, not assumed.       *)
(***************************************************************************)
EXTENDS Integers, Sequences, FiniteSets, TLC

(***************************************************************************)
(* Bounds of the model.                                                    *)
(***************************************************************************)
\* requests the service accepts
MaxRequests == 2

(***************************************************************************)
(* Text helpers.                                                           *)
(***************************************************************************)
\* Python's `needle in hay` on str
Contains(hay, needle) ==
    \E i \in 0..(Len(hay) - Len(needle)) :
        SubSeq(hay, i + 1, i + Len(needle)) = needle

\* all sequences over S of length at most n
RECURSIVE SeqsUpTo(_, _)
SeqsUpTo(S, n) ==
    IF n = 0 THEN {<<>>}
    ELSE LET shorter == SeqsUpTo(S, n - 1)
         IN  shorter \cup {Append(s, c) : s \in shorter, c \in S}

\* n copies of c
Repeat(c, n) == [i \in 1..n |-> c]

(***************************************************************************)
(* core/validation.py                                                      *)
(***************************************************************************)
MAX_MESSAGE_LENGTH == 10000
MAX_MESSAGES == 100
ALLOWED_ROLES == {"user", "assistant", "system"}
\* the length limit of validate_user_id and validate_pod_id
MAX_ID_LENGTH == 255

\* [a-zA-Z0-9]
AlnumChars == (48..57) \cup (65..90) \cup (97..122)

\* [a-zA-Z0-9_:.-]
UserIdClass == AlnumChars \cup {95, 58, 46, 45}

\* the class of validate_pod_id with the colon of the user_id class admitted
PodIdClassWithColon == AlnumChars \cup {95, 58, 46, 45}

\* [a-zA-Z0-9_.-]
PodIdClass == AlnumChars \cup {95, 46, 45}

\* re.match(r'^[class]+$', s): `$` matches at the end of the string and also
\* just before a newline that ends it
ReMatchClassPlus(s, class) ==
    LET AllIn(t) == Len(t) >= 1 /\ \A i \in 1..Len(t) : t[i] \in class
    IN  \/ AllIn(s)
        \/ Len(s) >= 2 /\ s[Len(s)] = 10 /\ AllIn(SubSeq(s, 1, Len(s) - 1))

\* validate_user_id: <<valid, error>>
validate_user_id(user_id) ==
    IF user_id = <<>> THEN <<FALSE, "user_id cannot be empty">>
    ELSE IF Len(user_id) > MAX_ID_LENGTH
         THEN <<FALSE, "user_id too long (max 255 characters)">>
    ELSE IF ~ReMatchClassPlus(user_id, UserIdClass)
         THEN <<FALSE, "user_id contains invalid characters">>
    ELSE <<TRUE, "">>

\* validate_pod_id with the length limit tested by >= instead of >
validate_pod_id_below_limit(pod_id) ==
    IF pod_id = <<>> THEN <<FALSE, "pod_id cannot be empty">>
    ELSE IF Len(pod_id) >= MAX_ID_LENGTH
         THEN <<FALSE, "pod_id too long (max 255 characters)">>
    ELSE IF ~ReMatchClassPlus(pod_id, PodIdClass)
         THEN <<FALSE, "pod_id contains invalid characters">>
    ELSE <<TRUE, "">>

\* validate_pod_id: <<valid, error>>
validate_pod_id(pod_id) ==
    IF pod_id = <<>> THEN <<FALSE, "pod_id cannot be empty">>
    ELSE IF Len(pod_id) > MAX_ID_LENGTH
         THEN <<FALSE, "pod_id too long (max 255 characters)">>
    ELSE IF ~ReMatchClassPlus(pod_id, PodIdClass)
         THEN <<FALSE, "pod_id contains invalid characters">>
    ELSE <<TRUE, "">>

\* [\x00-\x08\x0B-\x0C\x0E-\x1F\x7F]
IsStrippedControl(c) ==
    (c >= 0 /\ c <= 8) \/ (c >= 11 /\ c <= 12) \/ (c >= 14 /\ c <= 31) \/ c = 127

\* what str.strip() removes at both ends (str.isspace)
IsWhitespace(c) ==
    \/ c \in {9, 10, 11, 12, 13, 28, 29, 30, 31, 32, 133, 160}
    \/ c \in {5760, 8232, 8233, 8239, 8287, 12288}
    \/ (c >= 8192 /\ c <= 8202)

RECURSIVE LStrip(_)
LStrip(s) ==
    IF s = <<>> THEN <<>>
    ELSE IF IsWhitespace(Head(s)) THEN LStrip(Tail(s))
    ELSE s

RECURSIVE RStrip(_)
RStrip(s) ==
    IF s = <<>> THEN <<>>
    ELSE IF IsWhitespace(s[Len(s)]) THEN RStrip(SubSeq(s, 1, Len(s) - 1))
    ELSE s

Strip(s) == RStrip(LStrip(s))

\* sanitize_message
sanitize_message(content) ==
    IF content = <<>> THEN <<>>
    ELSE Strip(SelectSeq(content, LAMBDA c : ~IsStrippedControl(c)))

\* a message as the validator sees it: whether it is a dict, which of the keys
\* 'role' and 'content' it has, and whether its content is a str
Msg(role, content) ==
    [isDict |-> TRUE, hasRole |-> TRUE, role |-> role,
     hasContent |-> TRUE, isStr |-> TRUE, content |-> content]

\* the checks of validate_messages on the message at index i (0-based in the
\* reason, as enumerate() counts), in the order the loop body makes them
MessageError(msg, i) ==
    IF ~msg.isDict THEN [err |-> "must be a dictionary", index |-> i]
    ELSE IF ~msg.hasRole THEN [err |-> "missing 'role' field", index |-> i]
    ELSE IF ~msg.hasContent THEN [err |-> "missing 'content' field", index |-> i]
    ELSE IF msg.role \notin ALLOWED_ROLES THEN [err |-> "Invalid role", index |-> i]
    ELSE IF ~msg.isStr THEN [err |-> "content must be a string", index |-> i]
    ELSE IF Len(msg.content) > MAX_MESSAGE_LENGTH
         THEN [err |-> "too long", index |-> i,
               max |-> MAX_MESSAGE_LENGTH, got |-> Len(msg.content)]
    ELSE [err |-> ""]

\* the first failing index of the loop `for i, msg in enumerate(messages)`
RECURSIVE FirstMessageError(_, _)
FirstMessageError(items, i) ==
    IF i > Len(items) THEN [err |-> ""]
    ELSE LET e == MessageError(items[i], i - 1)
         IN  IF e.err # "" THEN e ELSE FirstMessageError(items, i + 1)

\* validate_messages with the message limit tested by >= instead of >
validate_messages_off_by_one(messages) ==
    IF ~messages.isList THEN <<FALSE, [err |-> "Messages must be a list"]>>
    ELSE IF Len(messages.items) = 0
         THEN <<FALSE, [err |-> "Messages list cannot be empty"]>>
    ELSE IF Len(messages.items) >= MAX_MESSAGES
         THEN <<FALSE, [err |-> "Too many messages",
                        max |-> MAX_MESSAGES, got |-> Len(messages.items)]>>
    ELSE LET e == FirstMessageError(messages.items, 1)
         IN  IF e.err # "" THEN <<FALSE, e>> ELSE <<TRUE, [err |-> ""]>>

\* validate_messages: <<valid, error>>; messages is [isList, items]
validate_messages(messages) ==
    IF ~messages.isList THEN <<FALSE, [err |-> "Messages must be a list"]>>
    ELSE IF Len(messages.items) = 0
         THEN <<FALSE, [err |-> "Messages list cannot be empty"]>>
    ELSE IF Len(messages.items) > MAX_MESSAGES
         THEN <<FALSE, [err |-> "Too many messages",
                        max |-> MAX_MESSAGES, got |-> Len(messages.items)]>>
    ELSE LET e == FirstMessageError(messages.items, 1)
         IN  IF e.err # "" THEN <<FALSE, e>> ELSE <<TRUE, [err |-> ""]>>

(***************************************************************************)
(* core/orchestrator.py: the pure parts of process()                       *)
(***************************************************************************)
\* 'campaign', 'campaigns'
CAMPAIGN_KEYWORDS ==
    { <<99, 97, 109, 112, 97, 105, 103, 110>>,
      <<99, 97, 109, 112, 97, 105, 103, 110, 115>> }

\* f"{pod_id}::{user_id}"
MemoryKey(pod_id, user_id) == pod_id \o <<58, 58>> \o user_id

\* str.lower() on ASCII text
Lower(s) == [i \in 1..Len(s) |-> IF s[i] >= 65 /\ s[i] <= 90 THEN s[i] + 32 ELSE s[i]]

\* the same loop over messages in the order given: the content of the first
\* message whose role is 'user'
RECURSIVE FirstUserMessage(_)
FirstUserMessage(items) ==
    IF items = <<>> THEN <<>>
    ELSE IF items[1].role = "user" THEN items[1].content
    ELSE FirstUserMessage(Tail(items))

\* the loop over reversed(messages): the content of the last message whose
\* role is 'user'; <<>> stands for both None (no such message) and ''
RECURSIVE LastUserMessage(_)
LastUserMessage(items) ==
    IF items = <<>> THEN <<>>
    ELSE IF items[Len(items)].role = "user" THEN items[Len(items)].content
    ELSE LastUserMessage(SubSeq(items, 1, Len(items) - 1))

\* any(keyword in last_user_message.lower() for keyword in CAMPAIGN_KEYWORDS)
KeywordMatch(text) == \E k \in CAMPAIGN_KEYWORDS : Contains(Lower(text), k)

\* the keyword test applied to the text as received
RawText(raw) == raw

\* the text the keyword test of process() is applied to
RoutedText(raw) == sanitize_message(raw)

\* the reply of process() when there is no last user message
EMPTY_MESSAGE == <<"I didn't receive a message. Please try again.">>

\* the path process() takes for a validated conversation:
\* "empty" (the fixed reply), "fallback" or "agent"
Route(items) ==
    LET last == LastUserMessage(items)
    IN  IF last = <<>> THEN "empty"
        ELSE IF KeywordMatch(RoutedText(last)) THEN "fallback"
        ELSE "agent"

\* the input process() hands to the agent
AgentInput(items) == sanitize_message(LastUserMessage(items))

\* the three validations of process(), in order: "" or the ValueError raised
ProcessValidation(messages, user_id, pod_id) ==
    IF ~validate_messages(messages)[1] THEN "Invalid messages"
    ELSE IF ~validate_user_id(user_id)[1] THEN "Invalid user_id"
    ELSE IF ~validate_pod_id(pod_id)[1] THEN "Invalid pod_id"
    ELSE ""

(***************************************************************************)
(* The service: worker threads calling process() on the one orchestrator   *)
(* that server.py caches.                                                  *)
(***************************************************************************)
Threads == {"t1", "t2"}

\* texts of the requests: 'hi', 'Campaign', '' and one over the length limit
Hi == <<104, 105>>
CampaignText == <<67, 97, 109, 112, 97, 105, 103, 110>>
TooLong == Repeat(120, MAX_MESSAGE_LENGTH + 1)

\* identifiers of the requests: 'u' and 'v' are users, 'p' is a pod, ';' is
\* outside both character classes
UserU == <<117>>
UserV == <<118>>
PodP == <<112>>
Semicolon == <<59>>

\* the bearer token each caller sends in its Authorization header, as words
Tokens == {<<"tokU">>, <<"tokV">>}
TokenOf(user_id) == IF user_id = UserV THEN <<"tokV">> ELSE <<"tokU">>
\* the tokens the data store accepts
ValidTokens == Tokens

\* the requests the callers send: <<message, user_id, pod_id>>
Requests ==
    ({Hi, CampaignText} \X {UserU, UserV} \X {PodP})
    \cup {<<<<>>, UserU, PodP>>, <<TooLong, UserU, PodP>>,
          <<Hi, Semicolon, PodP>>, <<Hi, UserU, Semicolon>>}

\* contents the agent asks to remember
Contents == {"c1", "c2"}

NoKey == <<>>
\* the tools the setter hands to Agent(): the two memory closures followed by
\* what RevOSTools.get_all_tools() returns
AgentTools ==
    <<"search_memory", "save_memory",
      "get_all_campaigns", "get_campaign_by_id", "analyze_pod_engagement",
      "get_linkedin_performance", "create_campaign", "schedule_post",
      "analyze_campaign_performance">>

\* __init__ assigns no self.agent
NoAgent == [built_by |-> "none", serial |-> 0, name |-> "", tools |-> <<>>]
\* self.agent = Agent(name="RevOS Intelligence", ..., tools=all_tools)
NewAgent(t, serial) ==
    [built_by |-> t, serial |-> serial,
     name |-> "RevOS Intelligence", tools |-> AgentTools]
NoRequest == [message |-> <<>>, user_id |-> <<>>, pod_id |-> <<>>,
              authorization |-> <<>>, serial |-> 0]
NoCall == [op |-> "none"]

VARIABLES
    env_keys_set,           \* MEM0_API_KEY and OPENAI_API_KEY are both set
    orchestrator_instance,  \* server.py _orchestrator_instance: "None" | "cached"
    headers_authorization,  \* revos_tools.headers['Authorization'], as words
    agent,                  \* self.agent: who built it, or NoAgent
    memory_key_storage,     \* self._memory_key_storage: thread -> key
    mem0,                   \* the records the memory backend holds
    pc,                     \* thread -> where its handler stands
    request,                \* thread -> the request it is handling
    accepted,               \* requests chat() has taken so far
    key_at_entry,           \* thread -> its scope cell when process() was entered
    running_agent,          \* thread -> the agent run_sync was started with
    effects,                \* thread -> what process() has done for its request
    raised,                 \* thread -> <<exceptions process() raised, the last one>>
    last_memory_call,       \* thread -> its last memory tool call
    token_used,             \* thread -> the bearer tokens used for its request
    reply,                  \* thread -> what process() returned
    response                \* thread -> what chat() answered

\* the variables of the service
service == <<env_keys_set, orchestrator_instance, headers_authorization, agent,
             memory_key_storage, mem0, pc, request, accepted, key_at_entry,
             running_agent, effects, raised, last_memory_call, token_used,
             reply, response>>

VARIABLES
    call_args,              \* the arguments of a call made outside the service
    call_result,            \* what that call returned, or NotCalled
    json_error_caught,      \* the installed requests raises a RequestException
                            \* from response.json() (2.27 and later)
    http_request,           \* the last HTTP request a tenant-data tool sent
    tool_result             \* what the last tenant-data tool call ended with

\* the variables of calls made outside the service
aux == <<call_args, call_result, json_error_caught, http_request, tool_result>>

vars == <<service, aux>>

NotCalled == [done |-> FALSE]
NoHttp == [tool |-> "none"]

\* no call outside the service is being looked at
AuxIdle ==
    /\ call_args = <<>>
    /\ call_result = NotCalled
    /\ json_error_caught = TRUE
    /\ http_request = NoHttp
    /\ tool_result = NoHttp

\* f'Bearer {auth_token}'
BearerHeader(auth_token) == <<"Bearer ">> \o auth_token

\* headers.get('Authorization', '').replace('Bearer ', '')
HeaderToken(header) == SelectSeq(header, LAMBDA w : w # "Bearer ")

\* get_orchestrator passes auth_token="" to HGCOrchestrator
ServerAuthToken == <<>>

\* a scope cell that is one attribute of the orchestrator, shared by all
\* threads: it holds what the last setter call wrote
current_memory_key_shared(t) == memory_key_storage[agent.built_by]

\* the property getter: getattr(self._memory_key_storage, 'key', None) on the
\* calling thread
current_memory_key(t) == memory_key_storage[t]

\* messages = [{"role": "user", "content": request.message}]
ChatMessages(req) == [isList |-> TRUE, items |-> <<Msg("user", req.message)>>]

\* no request has been taken yet
ServiceIdle ==
    /\ env_keys_set \in BOOLEAN
    /\ orchestrator_instance = "None"
    /\ headers_authorization = <<>>
    /\ agent = NoAgent
    /\ memory_key_storage = [t \in Threads |-> NoKey]
    /\ mem0 = {}
    /\ pc = [t \in Threads |-> "idle"]
    /\ request = [t \in Threads |-> NoRequest]
    /\ accepted = 0
    /\ key_at_entry = [t \in Threads |-> NoKey]
    /\ running_agent = [t \in Threads |-> NoAgent]
    /\ effects = [t \in Threads |-> {}]
    /\ raised = [t \in Threads |-> <<0, "">>]
    /\ last_memory_call = [t \in Threads |-> NoCall]
    /\ token_used = [t \in Threads |-> {}]
    /\ reply = [t \in Threads |-> <<>>]
    /\ response = [t \in Threads |-> 0]

Init == ServiceIdle /\ AuxIdle

(***************************************************************************)
(* server.py: chat() up to the call of process()                           *)
(***************************************************************************)
\* chat() takes a request; get_orchestrator() builds the orchestrator on the
\* first call and returns the cached one afterwards
ChatEnter(t) ==
    /\ pc[t] = "idle"
    /\ accepted < MaxRequests
    \* the threads are interchangeable: the first request goes to t1
    /\ accepted = 0 => t = "t1"
    /\ accepted' = accepted + 1
    /\ \E r \in Requests :
          request' = [request EXCEPT ![t] =
                        [message |-> r[1], user_id |-> r[2], pod_id |-> r[3],
                         authorization |-> BearerHeader(TokenOf(r[2])),
                         serial |-> accepted + 1]]
    /\ IF orchestrator_instance = "None" /\ ~env_keys_set
       THEN \* ValueError("MEM0_API_KEY and OPENAI_API_KEY must be set")
            /\ pc' = [pc EXCEPT ![t] = "failed"]
            /\ UNCHANGED <<orchestrator_instance, headers_authorization>>
       ELSE /\ pc' = [pc EXCEPT ![t] = "process"]
            /\ orchestrator_instance' = "cached"
            /\ headers_authorization' =
                  IF orchestrator_instance = "None"
                  THEN BearerHeader(ServerAuthToken)
                  ELSE headers_authorization
    /\ key_at_entry' = [key_at_entry EXCEPT ![t] = memory_key_storage[t]]
    /\ UNCHANGED aux
    /\ UNCHANGED <<env_keys_set, agent, memory_key_storage, mem0,
                   running_agent, effects, raised,
                   last_memory_call, token_used, reply, response>>

(***************************************************************************)
(* core/orchestrator.py: process()                                         *)
(***************************************************************************)
\* process() with the scope cell written before the inputs are validated
ProcessPrologueScopeFirst(messages, user_id, pod_id, old_key) ==
    [error |-> ProcessValidation(messages, user_id, pod_id),
     key |-> MemoryKey(pod_id, user_id),
     setter_ran |-> TRUE]

\* lines 329-349: validate, then format the key and run the setter
ProcessPrologue(messages, user_id, pod_id, old_key) ==
    LET error == ProcessValidation(messages, user_id, pod_id)
    IN  IF error # ""
        THEN [error |-> error, key |-> old_key, setter_ran |-> FALSE]
        ELSE [error |-> "", key |-> MemoryKey(pod_id, user_id), setter_ran |-> TRUE]

\* lines 329-380 up to the choice of the path. Validation; on success the
\* current_memory_key setter (the key goes to the thread's cell, the tools and
\* the agent are rebuilt and self.agent is assigned on the shared
\* orchestrator); then the last user message is picked, answered at once when
\* there is none, else sanitized and routed to the fallback or the agent
ProcessBegin(t) ==
    /\ pc[t] = "process"
    /\ LET req == request[t]
           pre == ProcessPrologue(ChatMessages(req), req.user_id, req.pod_id,
                                  memory_key_storage[t])
           route == Route(ChatMessages(req).items)
       IN  /\ memory_key_storage' = [memory_key_storage EXCEPT ![t] = pre.key]
           /\ agent' = IF pre.setter_ran
                       THEN NewAgent(t, req.serial)
                       ELSE agent
           /\ IF pre.error # ""
              THEN /\ raised' = [raised EXCEPT ![t] = <<raised[t][1] + 1, "ValueError">>]
                   /\ pc' = [pc EXCEPT ![t] = "raised"]
                   /\ UNCHANGED reply
              ELSE /\ UNCHANGED raised
                   /\ pc' = [pc EXCEPT ![t] =
                               IF route = "empty" THEN "returned"
                               ELSE IF route = "fallback" THEN "fallback"
                               ELSE "run_agent"]
                   /\ reply' = [reply EXCEPT ![t] =
                               IF route = "empty"
                               THEN EMPTY_MESSAGE
                               ELSE reply[t]]
    /\ UNCHANGED aux
    /\ UNCHANGED <<env_keys_set, orchestrator_instance, headers_authorization,
                   mem0, request, accepted, key_at_entry, running_agent,
                   effects, last_memory_call, token_used, response>>

\* the fixed replies of the fallback path
AUTH_MESSAGE ==
    <<"I couldn't authenticate your session. Please refresh the page and try again.">>
ACCOUNT_MESSAGE ==
    <<"I couldn't find your account information. Please contact support.">>
FAILURE_MESSAGE ==
    <<"I encountered an issue while fetching your campaigns. Please try again or contact support if the problem persists.">>
NO_CAMPAIGNS_MESSAGE ==
    <<"You don't have any campaigns yet. Would you like to create one?">>

\* what a count query on leads or posts ends with: a count, a response whose
\* count is None, or an exception
Count(n) == [kind |-> "count", n |-> n]
CountNone == [kind |-> "none", n |-> 0]
CountRaise == [kind |-> "raise", n |-> 0]

\* rows of the campaigns table, each with what its two count queries end
\* with; "missing" is a row without that key
CampaignRows ==
    [name : {"A", "B", "missing"}, status : {"active", "missing"},
     leads : {Count(3), CountNone, CountRaise}, posts : {Count(1), CountRaise}]

\* a data store whose calls all succeed for a user with a client and rows
Store(rows) ==
    [client |-> "ok", get_user |-> "user", users_row |-> "row",
     fetch |-> "ok", rows |-> rows]

\* the first call that does not take the main path, for each call in turn
FailingStores(auth_token) ==
    { [Store(<<>>) EXCEPT !.client = "raise"] }
    \cup { [Store(<<>>) EXCEPT !.get_user = g] :
             g \in IF auth_token \in ValidTokens THEN {"raise"}
                   ELSE {"none", "raise"} }
    \cup (IF auth_token \in ValidTokens
          THEN { [Store(<<>>) EXCEPT !.users_row = u] :
                   u \in {"null_client", "no_row", "raise"} }
               \cup { [Store(<<>>) EXCEPT !.fetch = "raise"] }
          ELSE {})

\* what the data store does during one fallback query of the service:
\* creating the client, auth.get_user, the users-table lookup, the campaigns
\* fetch with no row or one row
FallbackExternal(auth_token) ==
    FailingStores(auth_token)
    \cup (IF auth_token \in ValidTokens
          THEN { Store(<<>>),
                 Store(<<[name |-> "A", status |-> "active",
                          leads |-> Count(3), posts |-> Count(1)]>>) }
          ELSE {})

\* a _get_user_context without the test of user_response.user
get_user_context_unchecked(ext) ==
    IF ext.get_user = "raise"
    THEN [user_id |-> "None", client_id |-> "None",
          queries |-> <<"auth.get_user">>]
    ELSE [user_id |-> "user", client_id |-> "client",
          queries |-> <<"auth.get_user", "users">>]

\* _get_user_context: user_id and client_id ("None" for None) and the calls
\* it made
get_user_context(ext) ==
    IF ext.get_user \in {"raise", "none"}
    THEN [user_id |-> "None", client_id |-> "None",
          queries |-> <<"auth.get_user">>]
    ELSE IF ext.users_row = "raise"
    THEN [user_id |-> "None", client_id |-> "None",
          queries |-> <<"auth.get_user", "users">>]
    ELSE IF ext.users_row \in {"no_row", "null_client"}
    THEN [user_id |-> "user", client_id |-> "None",
          queries |-> <<"auth.get_user", "users">>]
    ELSE [user_id |-> "user", client_id |-> "client",
          queries |-> <<"auth.get_user", "users">>]

\* leads_response.count if leads_response.count else 0
CountOrZero(c) == IF c.kind = "count" THEN c.n ELSE 0

\* a loop that leaves out the campaigns whose count queries fail
RECURSIVE MetricsLoopSkipping(_, _)
MetricsLoopSkipping(rows, i) ==
    IF i > Len(rows) THEN [raised |-> FALSE, queries |-> <<>>, records |-> <<>>]
    ELSE LET rest == MetricsLoopSkipping(rows, i + 1)
         IN  IF rows[i].leads.kind = "raise"
             THEN [rest EXCEPT !.queries = <<"leads">> \o @]
             ELSE IF rows[i].posts.kind = "raise"
             THEN [rest EXCEPT !.queries = <<"leads", "posts">> \o @]
             ELSE [raised |-> rest.raised,
                   queries |-> <<"leads", "posts">> \o rest.queries,
                   records |-> <<[name |-> IF rows[i].name = "missing"
                                           THEN "Unnamed" ELSE rows[i].name,
                                  status |-> IF rows[i].status = "missing"
                                             THEN "unknown" ELSE rows[i].status,
                                  leads |-> CountOrZero(rows[i].leads),
                                  posts |-> CountOrZero(rows[i].posts)]>>
                               \o rest.records]

\* the loop of _fetch_campaigns_with_metrics over the rows from index i:
\* the records appended, the queries made, and whether a query raised
RECURSIVE MetricsLoop(_, _)
MetricsLoop(rows, i) ==
    IF i > Len(rows) THEN [raised |-> FALSE, queries |-> <<>>, records |-> <<>>]
    ELSE IF rows[i].leads.kind = "raise"
    THEN [raised |-> TRUE, queries |-> <<"leads">>, records |-> <<>>]
    ELSE IF rows[i].posts.kind = "raise"
    THEN [raised |-> TRUE, queries |-> <<"leads", "posts">>, records |-> <<>>]
    ELSE LET rest == MetricsLoop(rows, i + 1)
             record == [name |-> IF rows[i].name = "missing" THEN "Unnamed"
                                 ELSE rows[i].name,
                        status |-> IF rows[i].status = "missing" THEN "unknown"
                                   ELSE rows[i].status,
                        leads |-> CountOrZero(rows[i].leads),
                        posts |-> CountOrZero(rows[i].posts)]
         IN  [raised |-> rest.raised,
              queries |-> <<"leads", "posts">> \o rest.queries,
              records |-> <<record>> \o rest.records]

\* _fetch_campaigns_with_metrics
fetch_campaigns_with_metrics(ext) ==
    IF ext.fetch = "raise"
    THEN [raised |-> TRUE, queries |-> <<"campaigns">>, records |-> <<>>]
    ELSE LET loop == MetricsLoop(ext.rows, 1)
         IN  [loop EXCEPT !.queries = <<"campaigns">> \o @]

\* the two lines _format_campaigns_response writes for the i-th campaign
CampaignEntry(i, campaign) ==
    << ToString(i), ". **", campaign.name, "** (", campaign.status, ")\n",
       "   - Leads: ", ToString(campaign.leads), ", Posts: ",
       ToString(campaign.posts), "\n" >>

\* the entries numbered in input order but taken from the end of the list
RECURSIVE CampaignEntriesReversed(_, _)
CampaignEntriesReversed(campaigns, i) ==
    IF i > Len(campaigns) THEN <<>>
    ELSE CampaignEntry(i, campaigns[Len(campaigns) + 1 - i])
         \o CampaignEntriesReversed(campaigns, i + 1)

\* the entries of the campaigns from index i on
RECURSIVE CampaignEntries(_, _)
CampaignEntries(campaigns, i) ==
    IF i > Len(campaigns) THEN <<>>
    ELSE CampaignEntry(i, campaigns[i]) \o CampaignEntries(campaigns, i + 1)

\* _format_campaigns_response: the text as the pieces the f-strings join
format_campaigns_response(campaigns) ==
    IF Len(campaigns) = 0 THEN NO_CAMPAIGNS_MESSAGE
    ELSE <<"You have ", ToString(Len(campaigns)), " campaign(s):\n\n">>
         \o CampaignEntries(campaigns, 1)

\* a try block that tests user_id and client_id together and has one reply
\* for both
campaign_query_body_one_test(ext) ==
    IF ext.client = "raise"
    THEN [raised |-> TRUE, text |-> <<>>, queries |-> <<"create_client">>]
    ELSE LET ctx == get_user_context(ext)
             made == <<"create_client">> \o ctx.queries
         IN  IF ctx.user_id = "None" \/ ctx.client_id = "None"
             THEN [raised |-> FALSE, text |-> AUTH_MESSAGE, queries |-> made]
             ELSE LET fetched == fetch_campaigns_with_metrics(ext)
                  IN  IF fetched.raised
                      THEN [raised |-> TRUE, text |-> <<>>,
                            queries |-> made \o fetched.queries]
                      ELSE [raised |-> FALSE,
                            text |-> format_campaigns_response(fetched.records),
                            queries |-> made \o fetched.queries]

\* the try block of _handle_campaign_query: the text returned, the calls
\* made to the data store, and whether an exception left the block
campaign_query_body(ext) ==
    IF ext.client = "raise"
    THEN [raised |-> TRUE, text |-> <<>>, queries |-> <<"create_client">>]
    ELSE LET ctx == get_user_context(ext)
             made == <<"create_client">> \o ctx.queries
         IN  IF ctx.user_id = "None"
             THEN [raised |-> FALSE, text |-> AUTH_MESSAGE, queries |-> made]
             ELSE IF ctx.client_id = "None"
             THEN [raised |-> FALSE, text |-> ACCOUNT_MESSAGE, queries |-> made]
             ELSE LET fetched == fetch_campaigns_with_metrics(ext)
                  IN  IF fetched.raised
                      THEN [raised |-> TRUE, text |-> <<>>,
                            queries |-> made \o fetched.queries]
                      ELSE [raised |-> FALSE,
                            text |-> format_campaigns_response(fetched.records),
                            queries |-> made \o fetched.queries]

\* _handle_campaign_query: except Exception turns an exception of the try
\* block into the generic reply
handle_campaign_query(ext) ==
    LET body == campaign_query_body(ext)
    IN  IF body.raised
        THEN [raised |-> FALSE, text |-> FAILURE_MESSAGE, queries |-> body.queries]
        ELSE body

\* the token process() hands to the fallback path (line 379)
FallbackAuthToken(req) == HeaderToken(headers_authorization)

\* a process() that goes on to the agent after the fallback path
AfterFallbackFallsThrough == "run_agent"

\* line 380: process() returns what _handle_campaign_query returned
AfterFallback == "returned"

\* lines 376-380: the fallback direct-access path
Fallback(t) ==
    /\ pc[t] = "fallback"
    /\ LET auth_token == FallbackAuthToken(request[t])
       IN  /\ token_used' = [token_used EXCEPT ![t] = @ \cup {auth_token}]
           /\ \E text \in {handle_campaign_query(ext).text :
                                ext \in FallbackExternal(auth_token)} :
                 reply' = [reply EXCEPT ![t] = text]
    /\ effects' = [effects EXCEPT ![t] = @ \cup {"fallback"}]
    /\ pc' = [pc EXCEPT ![t] = AfterFallback]
    /\ UNCHANGED aux
    /\ UNCHANGED <<env_keys_set, orchestrator_instance, headers_authorization,
                   agent, memory_key_storage, mem0, request, accepted,
                   key_at_entry, running_agent, raised,
                   last_memory_call, response>>

\* lines 382-393: run_sync is started with self.agent as it is at that moment
RunAgent(t) ==
    /\ pc[t] = "run_agent"
    /\ running_agent' = [running_agent EXCEPT ![t] = agent]
    /\ effects' = [effects EXCEPT ![t] = @ \cup {"agent"}]
    /\ pc' = [pc EXCEPT ![t] = "tool_decision"]
    /\ UNCHANGED aux
    /\ UNCHANGED <<env_keys_set, orchestrator_instance, headers_authorization,
                   agent, memory_key_storage, mem0, request, accepted,
                   key_at_entry, raised, last_memory_call, token_used, reply,
                   response>>

\* the memory backend's filtered search (memory.search(..., filters=...))
Mem0Search(store, filters) == {r \in store : r.user_id = filters.user_id}

\* a search_memory that sends no filter to the backend
search_memory_unfiltered(store, key, backend) ==
    IF key = NoKey THEN [queried |-> FALSE, filter |-> NoKey, results |-> {}]
    ELSE IF backend = "raise" THEN [queried |-> TRUE, filter |-> key, results |-> {}]
    ELSE [queried |-> TRUE, filter |-> key, results |-> store]

\* search_memory, lines 206-236: whether the backend was asked, the user_id
\* filter sent, and the list returned to the agent
search_memory(store, key, backend) ==
    IF key = NoKey THEN [queried |-> FALSE, filter |-> NoKey, results |-> {}]
    ELSE IF backend = "raise" THEN [queried |-> TRUE, filter |-> key, results |-> {}]
    ELSE [queried |-> TRUE, filter |-> key,
          results |-> Mem0Search(store, [user_id |-> key])]

\* a save_memory without the test of the scope key
save_memory_unguarded(key, content, backend) ==
    IF backend = "raise"
    THEN [success |-> FALSE, error |-> "str(e)", added |-> FALSE,
          user_id |-> key, saved |-> "", raised |-> FALSE]
    ELSE [success |-> TRUE, error |-> "", added |-> TRUE, user_id |-> key,
          saved |-> content, raised |-> FALSE]

\* save_memory, lines 239-261: the result returned to the agent (saved is
\* the 'saved' entry, "" when there is none), whether memory.add accepted
\* the record and the user_id it was added with, and whether the tool raised
save_memory(key, content, backend) ==
    IF key = NoKey
    THEN [success |-> FALSE, error |-> "No memory key", added |-> FALSE,
          user_id |-> NoKey, saved |-> "", raised |-> FALSE]
    ELSE IF backend = "raise"
    THEN [success |-> FALSE, error |-> "str(e)", added |-> FALSE,
          user_id |-> key, saved |-> "", raised |-> FALSE]
    ELSE [success |-> TRUE, error |-> "", added |-> TRUE, user_id |-> key,
          saved |-> content, raised |-> FALSE]

\* a backend whose add replaces what is stored under the same user_id
Mem0AddReplacing(store, record) ==
    {r \in store : r.user_id # record.user_id} \cup {record}

\* memory.add(content, user_id=...), line 256: one more record in the store
Mem0Add(store, record) == store \cup {record}

\* the agent calls save_memory(content); the closure reads the scope cell of
\* the thread that executes it
SaveMemory(t) ==
    /\ pc[t] = "tool_decision"
    /\ \E content \in Contents, backend \in {"ok", "raise"} :
         LET key == current_memory_key(t)
             r == save_memory(key, content, backend)
         IN  /\ mem0' = IF r.added
                        THEN Mem0Add(mem0, [user_id |-> r.user_id,
                                            content |-> content,
                                            saved_under |-> key])
                        ELSE mem0
             /\ last_memory_call' = [last_memory_call EXCEPT ![t] =
                   [op |-> "save", scope |-> key, key |-> r.user_id,
                    results |-> {}]]
    /\ effects' = [effects EXCEPT ![t] = @ \cup {"memory"}]
    /\ UNCHANGED aux
    /\ UNCHANGED <<env_keys_set, orchestrator_instance, headers_authorization,
                   agent, memory_key_storage, pc, request, accepted,
                   key_at_entry, running_agent, raised, token_used, reply,
                   response>>

\* the agent calls search_memory(query)
SearchMemory(t) ==
    /\ pc[t] = "tool_decision"
    /\ \E backend \in {"ok", "raise"} :
         LET key == current_memory_key(t)
             r == search_memory(mem0, key, backend)
         IN  last_memory_call' = [last_memory_call EXCEPT ![t] =
                   [op |-> "search", scope |-> key, key |-> r.filter,
                    results |-> r.results]]
    /\ effects' = [effects EXCEPT ![t] = @ \cup {"memory"}]
    /\ UNCHANGED aux
    /\ UNCHANGED <<env_keys_set, orchestrator_instance, headers_authorization,
                   agent, memory_key_storage, mem0, pc, request, accepted,
                   key_at_entry, running_agent, raised, token_used, reply,
                   response>>

\* the token a tenant-data tool sends: self.headers of the shared RevOSTools
TenantToolToken(req) == HeaderToken(headers_authorization)

\* the agent calls one of the tenant-data tools of tools/revos_tools.py
TenantTool(t) ==
    /\ pc[t] = "tool_decision"
    /\ token_used' = [token_used EXCEPT ![t] = @ \cup {TenantToolToken(request[t])}]
    /\ UNCHANGED aux
    /\ UNCHANGED <<env_keys_set, orchestrator_instance, headers_authorization,
                   agent, memory_key_storage, mem0, pc, request, accepted,
                   key_at_entry, running_agent, effects, raised, last_memory_call,
                   reply, response>>

\* what run_sync can return: an object with a final_output attribute, one
\* with only a content attribute, or one with neither
RunResults == {"final_output", "content", "other"}

\* a text extraction that knows final_output only
ExtractTextFinalOutputOnly(result) ==
    IF result = "final_output" THEN <<"final_output">> ELSE <<>>

\* lines 403-410: the text process() takes from the result of the run
ExtractText(result) ==
    IF result = "final_output" THEN <<"final_output">>
    ELSE IF result = "content" THEN <<"content">>
    ELSE <<"str(result)">>

\* lines 394-412: the run ends and process() returns the text of its result
AgentFinish(t) ==
    /\ pc[t] = "tool_decision"
    /\ \E result \in RunResults :
          reply' = [reply EXCEPT ![t] = ExtractText(result)]
    /\ pc' = [pc EXCEPT ![t] = "returned"]
    /\ running_agent' = [running_agent EXCEPT ![t] = NoAgent]
    /\ last_memory_call' = [last_memory_call EXCEPT ![t] = NoCall]
    /\ UNCHANGED aux
    /\ UNCHANGED <<env_keys_set, orchestrator_instance, headers_authorization,
                   agent, memory_key_storage, mem0, request, accepted,
                   key_at_entry, effects, raised,
                   token_used, response>>

\* lines 413-417: run_sync raises and process() re-raises
AgentRaise(t) ==
    /\ pc[t] = "tool_decision"
    /\ raised' = [raised EXCEPT ![t] = <<raised[t][1] + 1, "Exception">>]
    /\ pc' = [pc EXCEPT ![t] = "raised"]
    /\ running_agent' = [running_agent EXCEPT ![t] = NoAgent]
    /\ last_memory_call' = [last_memory_call EXCEPT ![t] = NoCall]
    /\ UNCHANGED aux
    /\ UNCHANGED <<env_keys_set, orchestrator_instance, headers_authorization,
                   agent, memory_key_storage, mem0, request, accepted,
                   key_at_entry, effects,
                   token_used, reply, response>>

(***************************************************************************)
(* server.py: chat() after the call of process()                           *)
(***************************************************************************)
\* the status chat() answers with. process() is a plain function, so
\* `await orchestrator.process(...)` awaits the str it returned and raises
\* TypeError, which the except clause turns into a 500 like any other failure
ChatStatus(outcome) ==
    IF outcome = "returned" THEN 500
    ELSE 500

\* chat() answers and the thread is free for the next request
ChatRespond(t) ==
    /\ pc[t] \in {"returned", "raised", "failed"}
    /\ response' = [response EXCEPT ![t] = ChatStatus(pc[t])]
    /\ pc' = [pc EXCEPT ![t] = "idle"]
    /\ request' = [request EXCEPT ![t] = NoRequest]
    /\ running_agent' = [running_agent EXCEPT ![t] = NoAgent]
    /\ effects' = [effects EXCEPT ![t] = {}]
    /\ raised' = [raised EXCEPT ![t] = <<0, "">>]
    /\ last_memory_call' = [last_memory_call EXCEPT ![t] = NoCall]
    /\ token_used' = [token_used EXCEPT ![t] = {}]
    /\ reply' = [reply EXCEPT ![t] = <<>>]
    /\ key_at_entry' = [key_at_entry EXCEPT ![t] = NoKey]
    /\ UNCHANGED aux
    /\ UNCHANGED <<env_keys_set, orchestrator_instance, headers_authorization,
                   agent, memory_key_storage, mem0, accepted>>

Next ==
    \E t \in Threads :
        \/ ChatEnter(t)
        \/ ProcessBegin(t)
        \/ Fallback(t)
        \/ RunAgent(t)
        \/ SaveMemory(t)
        \/ SearchMemory(t)
        \/ TenantTool(t)
        \/ AgentFinish(t)
        \/ AgentRaise(t)
        \/ ChatRespond(t)

Spec == Init /\ [][Next]_vars

(***************************************************************************)
(* process() called on its own with identifiers of every shape             *)
(***************************************************************************)
\* longest identifier built from the alphabet
MaxIdLen == 2

\* 'a', ':', ';' and a newline
IdAlphabet == {97, 58, 59, 10}

\* the identifiers tried: every string over the alphabet up to MaxIdLen, and
\* two at the length limit
IdStrings ==
    SeqsUpTo(IdAlphabet, MaxIdLen)
    \cup {Repeat(97, MAX_ID_LENGTH), Repeat(97, MAX_ID_LENGTH + 1)}

\* a conversation that passes validate_messages
HiConversation == [isList |-> TRUE, items |-> <<Msg("user", Hi)>>]

InitIds ==
    /\ ServiceIdle /\ env_keys_set
    /\ call_args \in [pod_id : IdStrings, user_id : IdStrings]
    /\ call_result = NotCalled
    /\ json_error_caught = TRUE
    /\ http_request = NoHttp
    /\ tool_result = NoHttp

\* process(messages, user_id, pod_id), lines 329-349, on a fresh orchestrator
ProcessIds ==
    /\ call_result = NotCalled
    /\ call_result' = ProcessPrologue(HiConversation, call_args.user_id,
                                      call_args.pod_id, NoKey)
    /\ UNCHANGED <<call_args, json_error_caught, http_request, tool_result>>
    /\ UNCHANGED service

NextIds == ProcessIds

SpecIds == InitIds /\ [][NextIds]_vars

\* the (pod_id, user_id) pairs among the identifiers tried that pass both
\* validations
ValidIdPairs ==
    {pr \in IdStrings \X IdStrings :
        validate_pod_id(pr[1])[1] /\ validate_user_id(pr[2])[1]}

\* C5: scope keys are injective. The key process() built for a pair that
\* passed validate_pod_id and validate_user_id is the key of no other pair
\* that passes them.
C5_ScopeKeyInjective ==
    (call_result # NotCalled /\ call_result.error = "") =>
        \A pr \in ValidIdPairs :
            MemoryKey(pr[1], pr[2]) = call_result.key =>
                pr = <<call_args.pod_id, call_args.user_id>>

\* a key was built for a user id that starts with a colon, right after the
\* separator
C5_Witness ==
    /\ call_result # NotCalled
    /\ call_result.error = ""
    /\ call_args.user_id[1] = 58
    /\ call_result.key = call_args.pod_id \o <<58, 58>> \o call_args.user_id

\* id is empty, longer than 255 characters, or has a character outside class
BadIdentifier(id, class) ==
    \/ id = <<>>
    \/ Len(id) > 255
    \/ \E i \in 1..Len(id) : id[i] \notin class

\* letters, digits and '_', ':', '.', '-'
ClassWithColon == (48..57) \cup (65..90) \cup (97..122) \cup {95, 58, 46, 45}

\* letters, digits and '_', '.', '-'
ClassWithoutColon == ClassWithColon \ {58}

\* C11: an identifier that is empty, longer than 255 characters or contains a
\* character outside the allowed class is invalid, so process() fails and
\* builds no scope key from it.
C11_BadIdsRejected ==
    (/\ call_result # NotCalled
     /\ \/ BadIdentifier(call_args.user_id, ClassWithColon)
        \/ BadIdentifier(call_args.pod_id, ClassWithoutColon))
        => /\ call_result.error \in {"Invalid user_id", "Invalid pod_id"}
           /\ ~call_result.setter_ran

\* C12 as claimed: validate_pod_id accepts every non-empty string of at most
\* 255 characters made of letters, digits and '_', ':', '.', '-', as
\* validate_user_id does.
C12_AsClaimed ==
    (/\ call_result # NotCalled
     /\ ~BadIdentifier(call_args.pod_id, ClassWithColon))
        => call_result.error # "Invalid pod_id"

\* C12 amended: validate_pod_id accepts every non-empty string of at most 255
\* characters made of letters, digits and '_', '.', '-'; it rejects every
\* identifier with a ':', which validate_user_id admits.
C12_PodIdClassHasNoColon ==
    call_result # NotCalled =>
        /\ ~BadIdentifier(call_args.pod_id, ClassWithoutColon)
              => call_result.error # "Invalid pod_id"
        /\ (/\ ~BadIdentifier(call_args.user_id, ClassWithColon)
            /\ \E i \in 1..Len(call_args.pod_id) : call_args.pod_id[i] = 58)
              => call_result.error = "Invalid pod_id"

\* a pod id of exactly 255 letters was accepted next to a user id with a colon
C12_Witness ==
    /\ call_result # NotCalled
    /\ call_result.error = ""
    /\ Len(call_args.pod_id) = 255
    /\ \E i \in 1..Len(call_args.user_id) : call_args.user_id[i] = 58

(***************************************************************************)
(* validate_messages called on conversations of every shape                *)
(***************************************************************************)
\* longest conversation built from the message shapes
MaxConvLen == 2

\* message shapes: well-formed ones (short, and exactly at the length limit),
\* one over the limit, and one for each structural defect
MessageShapes ==
    { Msg("user", Hi),
      Msg("assistant", Repeat(120, MAX_MESSAGE_LENGTH)),
      Msg("user", Repeat(120, MAX_MESSAGE_LENGTH + 1)),
      Msg("tool", Hi),
      Msg("tool", Repeat(120, MAX_MESSAGE_LENGTH + 1)),
      [Msg("user", <<>>) EXCEPT !.isDict = FALSE],
      [Msg("user", Hi) EXCEPT !.hasRole = FALSE],
      [Msg("user", <<>>) EXCEPT !.hasContent = FALSE],
      [Msg("system", <<>>) EXCEPT !.isStr = FALSE] }

\* n well-formed messages with shape m put at position k
Padded(n, k, m) == [i \in 1..n |-> IF i = k THEN m ELSE Msg("user", Hi)]

\* the conversations tried: all up to MaxConvLen, conversations at and just
\* over the message limit with each shape first or last, and a non-list
Conversations ==
    {[isList |-> TRUE, items |-> c] : c \in SeqsUpTo(MessageShapes, MaxConvLen)}
    \cup {[isList |-> TRUE, items |-> Padded(n, IF first THEN 1 ELSE n, m)] :
             n \in {MAX_MESSAGES, MAX_MESSAGES + 1}, first \in BOOLEAN,
             m \in MessageShapes}
    \cup {[isList |-> FALSE, items |-> <<>>]}

InitMessages ==
    /\ ServiceIdle /\ env_keys_set
    /\ call_args \in Conversations
    /\ call_result = NotCalled
    /\ json_error_caught = TRUE
    /\ http_request = NoHttp
    /\ tool_result = NoHttp

\* InputValidator.validate_messages(messages)
ValidateMessages ==
    /\ call_result = NotCalled
    /\ call_result' = validate_messages(call_args)
    /\ UNCHANGED <<call_args, json_error_caught, http_request, tool_result>>
    /\ UNCHANGED service

NextMessages == ValidateMessages

SpecMessages == InitMessages /\ [][NextMessages]_vars

\* the message is a dict whose content is a str over the length limit
OverLong(msg) ==
    msg.isDict /\ msg.hasContent /\ msg.isStr /\ Len(msg.content) > MAX_MESSAGE_LENGTH

\* the message passes every check of the validator
WellFormedMessage(msg) ==
    /\ msg.isDict /\ msg.hasRole /\ msg.hasContent /\ msg.isStr
    /\ msg.role \in {"user", "assistant", "system"}
    /\ Len(msg.content) <= 10000

\* the conversation is over one of the two bounds
OverABound(conv) ==
    conv.isList /\ (Len(conv.items) > 100 \/ \E i \in 1..Len(conv.items) : OverLong(conv.items[i]))

\* the reason names a bound that the conversation violates
NamesViolatedBound(conv, reason) ==
    \/ /\ reason.err = "Too many messages"
       /\ reason.max = 100
       /\ Len(conv.items) > 100
    \/ /\ reason.err = "too long"
       /\ reason.max = 10000
       /\ reason.index + 1 \in 1..Len(conv.items)
       /\ OverLong(conv.items[reason.index + 1])

\* a well-formed conversation is valid
WellFormedIsValid ==
    (/\ call_args.isList
     /\ Len(call_args.items) \in 1..100
     /\ \A i \in 1..Len(call_args.items) : WellFormedMessage(call_args.items[i]))
        => call_result[1]

NoEarlierDefect(conv) ==
    \E i \in 1..Len(conv.items) :
        /\ OverLong(conv.items[i])
        /\ conv.items[i].hasRole
        /\ conv.items[i].role \in {"user", "assistant", "system"}
        /\ \A j \in 1..(i - 1) : WellFormedMessage(conv.items[j])

StatusCodes == {200, 201, 300, 404, 500}
Bodies == {"json_object", "json_array", "not_json"}
HttpOutcomes ==
    [kind : {"ConnectionError", "Timeout", "Exception"}, status : {0},
     body : {"none"}]
    \cup [kind : {"response"}, status : StatusCodes, body : Bodies]

\* the values the agent supplies for the string arguments of a tool
ToolStrings == {"a", "published"}
OptionalStrings == ToolStrings \cup {"None"}

\* the exception classes "except requests.RequestException" catches, with
\* Timeout left out
RequestExceptionsWithoutTimeout ==
    {"ConnectionError", "HTTPError"}
    \cup (IF json_error_caught THEN {"JSONDecodeError"} ELSE {})

\* the exception classes "except requests.RequestException" catches
RequestExceptions ==
    {"ConnectionError", "Timeout", "HTTPError"}
    \cup (IF json_error_caught THEN {"JSONDecodeError"} ELSE {})

\* response.raise_for_status() raises HTTPError for 400 <= status < 600
raise_for_status(status) == status >= 400 /\ status < 600

\* the body of the try block after the request was built: the exception it
\* raises, or "" when it reaches the return statement
TryBlock(outcome) ==
    IF outcome.kind # "response" THEN outcome.kind
    ELSE IF raise_for_status(outcome.status) THEN "HTTPError"
    ELSE IF outcome.body = "not_json"
         THEN (IF json_error_caught THEN "JSONDecodeError" ELSE "ValueError")
    ELSE IF outcome.body = "json_array" THEN "AttributeError"
    ELSE ""

\* what a tool call ends with: keys are the keys of the returned dict,
\* error is f"{prefix}: {str(e)}", raised the exception that leaves the tool
ToolCall(tool, prefix, data_keys, outcome) ==
    LET e == TryBlock(outcome)
    IN  IF e = ""
        THEN [tool |-> tool, outcome |-> outcome, raised |-> "",
              success |-> TRUE, error |-> <<>>,
              keys |-> {"success"} \cup data_keys]
        ELSE IF e \in RequestExceptions
        THEN [tool |-> tool, outcome |-> outcome, raised |-> "",
              success |-> FALSE, error |-> <<prefix, e>>,
              keys |-> {"success", "error"}]
        ELSE [tool |-> tool, outcome |-> outcome, raised |-> e,
              success |-> FALSE, error |-> <<>>, keys |-> {}]

\* a request without a json payload
NoJson == <<>>

\* requests.get(url, headers=self.headers, timeout=10)
HttpGet(tool, path, query) ==
    [tool |-> tool, method |-> "GET", path |-> path, query |-> query,
     json |-> NoJson, authorization |-> BearerHeader(call_args), timeout |-> 10]

\* requests.post(url, json=payload, headers=self.headers, timeout=10)
HttpPost(tool, path, payload) ==
    [tool |-> tool, method |-> "POST", path |-> path, query |-> <<>>,
     json |-> payload, authorization |-> BearerHeader(call_args),
     timeout |-> 10]

\* a create_campaign payload whose status follows the description argument
create_campaign_payload_status_from_description(name, voice_id, description) ==
    [name |-> name, voice_id |-> voice_id, description |-> description,
     status |-> IF description = "None" THEN "draft" ELSE description]

\* the payload of create_campaign
create_campaign_payload(name, voice_id, description) ==
    [name |-> name, voice_id |-> voice_id, description |-> description,
     status |-> "draft"]

\* the payload of schedule_post
schedule_post_payload(content, schedule_time, campaign_id) ==
    [content |-> content, schedule_time |-> schedule_time,
     campaign_id |-> campaign_id, status |-> "queued"]

InitTools ==
    /\ ServiceIdle /\ env_keys_set
    /\ call_args \in Tokens \cup {ServerAuthToken}
    /\ call_result = NotCalled
    /\ json_error_caught \in BOOLEAN
    /\ http_request = NoHttp
    /\ tool_result = NoHttp

get_all_campaigns ==
    \E outcome \in HttpOutcomes :
        /\ http_request' = HttpGet("get_all_campaigns", "/api/hgc/campaigns", <<>>)
        /\ tool_result' = ToolCall("get_all_campaigns", "Failed to fetch campaigns",
                                   {"campaigns", "count"}, outcome)
        /\ UNCHANGED <<service, call_args, call_result, json_error_caught>>

get_campaign_by_id ==
    \E campaign_id \in ToolStrings, outcome \in HttpOutcomes :
        /\ http_request' = HttpGet("get_campaign_by_id", "/api/hgc/campaigns",
                                   <<"campaign_id", campaign_id>>)
        /\ tool_result' = ToolCall("get_campaign_by_id", "Failed to fetch campaign",
                                   {"campaigns", "count"}, outcome)
        /\ UNCHANGED <<service, call_args, call_result, json_error_caught>>

analyze_pod_engagement ==
    \E pod_id \in ToolStrings, outcome \in HttpOutcomes :
        /\ http_request' = HttpGet("analyze_pod_engagement", "/api/hgc/pods",
                                   <<"pod_id", pod_id>>)
        /\ tool_result' = ToolCall("analyze_pod_engagement",
                                   "Failed to analyze pod engagement",
                                   {"engagement"}, outcome)
        /\ UNCHANGED <<service, call_args, call_result, json_error_caught>>

get_linkedin_performance ==
    \E date_range \in {"7d", "30d", "None"}, outcome \in HttpOutcomes :
        /\ http_request' = HttpGet("get_linkedin_performance", "/api/hgc/linkedin",
                                   <<"date_range", date_range>>)
        /\ tool_result' = ToolCall("get_linkedin_performance",
                                   "Failed to fetch LinkedIn performance",
                                   {"performance"}, outcome)
        /\ UNCHANGED <<service, call_args, call_result, json_error_caught>>

create_campaign ==
    \E name \in ToolStrings, voice_id \in {"v"}, description \in OptionalStrings,
       outcome \in HttpOutcomes :
        /\ http_request' = HttpPost("create_campaign", "/api/hgc/campaigns/create",
                              create_campaign_payload(name, voice_id, description))
        /\ tool_result' = ToolCall("create_campaign", "Failed to create campaign",
                                   {"campaign", "message"}, outcome)
        /\ UNCHANGED <<service, call_args, call_result, json_error_caught>>

schedule_post ==
    \E content \in ToolStrings, schedule_time \in {"2025-11-10T14:00:00Z"},
       campaign_id \in OptionalStrings, outcome \in HttpOutcomes :
        /\ http_request' = HttpPost("schedule_post", "/api/hgc/posts/queue",
                              schedule_post_payload(content, schedule_time,
                                                    campaign_id))
        /\ tool_result' = ToolCall("schedule_post", "Failed to queue post",
                                   {"post", "message"}, outcome)
        /\ UNCHANGED <<service, call_args, call_result, json_error_caught>>

analyze_campaign_performance ==
    \E campaign_id \in ToolStrings, outcome \in HttpOutcomes :
        /\ http_request' = HttpGet("analyze_campaign_performance",
                                   "/api/hgc/campaigns/analyze",
                                   <<"campaign_id", campaign_id>>)
        /\ tool_result' = ToolCall("analyze_campaign_performance",
                                   "Failed to analyze campaign",
                                   {"analysis", "recommendations"}, outcome)
        /\ UNCHANGED <<service, call_args, call_result, json_error_caught>>

NextTools ==
    \/ get_all_campaigns
    \/ get_campaign_by_id
    \/ analyze_pod_engagement
    \/ get_linkedin_performance
    \/ create_campaign
    \/ schedule_post
    \/ analyze_campaign_performance

SpecTools == InitTools /\ [][NextTools]_vars

\* the status field of the payload of the last request sent
SentStatus == http_request.json.status

\* C6: every request sent by create_campaign carries status "draft" and every
\* request sent by schedule_post carries status "queued", whatever the
\* arguments; no request of a tool carries any other status.
C6_WriteToolStatus ==
    /\ http_request.tool = "create_campaign" => SentStatus = "draft"
    /\ http_request.tool = "schedule_post" => SentStatus = "queued"
    /\ (http_request.tool # "none" /\ "status" \in DOMAIN http_request.json)
          => SentStatus \in {"draft", "queued"}

\* create_campaign was called with a description that names another status,
\* and the request it sent says draft
C6_Witness ==
    /\ http_request.tool = "create_campaign"
    /\ http_request.json.description = "published"
    /\ http_request.json.status = "draft"
    /\ tool_result.success

\* the HTTP request of the last tool call failed with a network error or a
\* timeout
TransportFailed ==
    /\ tool_result.tool # "none"
    /\ tool_result.outcome.kind \in {"ConnectionError", "Timeout"}

\* the last tool call returned {success: false, error: <message>}
ReturnedError ==
    /\ tool_result.raised = ""
    /\ ~tool_result.success
    /\ tool_result.keys = {"success", "error"}
    /\ Len(tool_result.error) = 2

\* C7 as claimed: a tool whose request fails with a network error, a timeout
\* or a status outside 200..299 returns {success: false, error} and does not
\* raise.
C7_AsClaimed ==
    (\/ TransportFailed
     \/ /\ tool_result.tool # "none"
        /\ tool_result.outcome.kind = "response"
        /\ tool_result.outcome.status \notin 200..299)
        => ReturnedError

\* C7 amended: a tool whose request fails with a network error, a timeout or
\* a 4xx / 5xx status returns {success: false, error} and does not raise.
C7_ErrorsAreResults ==
    (\/ TransportFailed
     \/ /\ tool_result.tool # "none"
        /\ tool_result.outcome.kind = "response"
        /\ tool_result.outcome.status \in 400..599)
        => ReturnedError

\* a timed-out schedule_post returned the error result
C7_Witness ==
    /\ tool_result.tool = "schedule_post"
    /\ tool_result.outcome.kind = "Timeout"
    /\ tool_result.error = <<"Failed to queue post", "Timeout">>
    /\ ReturnedError

\* C22: a tool whose HTTP request raises any exception, one outside the
\* requests.RequestException hierarchy included, returns {success: false,
\* error} and does not raise.
C22_AnyExceptionIsResult ==
    (/\ tool_result.tool # "none"
     /\ tool_result.outcome.kind \in {"ConnectionError", "Timeout", "Exception"})
        => /\ tool_result.raised = ""
           /\ ~tool_result.success
           /\ "error" \in tool_result.keys

(***************************************************************************)
(* process() on one validated conversation: which path the last user       *)
(* message selects.                                                        *)
(***************************************************************************)
MaxInserted == 1

\* 'campaign', 'CAMPAIGN', 'Campaigns', 'campaig'
LowerCampaign == <<99, 97, 109, 112, 97, 105, 103, 110>>
UpperCampaign == <<67, 65, 77, 80, 65, 73, 71, 78>>
MixedCampaigns == <<67, 97, 109, 80, 97, 105, 103, 110, 115>>
Campaig == <<99, 97, 109, 112, 97, 105, 103>>

\* characters put into a text: a control character, a space, 'x'
InsertChars == {1, 32, 120}

InsertAt(s, pos, c) == SubSeq(s, 1, pos) \o <<c>> \o SubSeq(s, pos + 1, Len(s))

\* the texts made from the texts of S by at most n insertions
RECURSIVE Inserted(_, _)
Inserted(S, n) ==
    IF n = 0 THEN S
    ELSE LET fewer == Inserted(S, n - 1)
         IN  fewer \cup UNION { { InsertAt(s, pos, c) :
                                    pos \in 0..Len(s), c \in InsertChars } :
                                  s \in fewer }

\* contents of the last user message
RouteTexts ==
    Inserted({LowerCampaign, UpperCampaign, MixedCampaigns, Campaig, Hi, <<>>},
             MaxInserted)

\* conversations whose last user message is text: alone, followed by an
\* assistant message, preceded by a user or a system message
RouteConversations ==
    { [isList |-> TRUE, items |-> items] :
        items \in UNION { { <<Msg("user", text)>>,
                            <<Msg("user", text), Msg("assistant", CampaignText)>>,
                            <<Msg("user", CampaignText), Msg("user", text)>>,
                            <<Msg("system", LowerCampaign), Msg("user", text)>> } :
                          text \in RouteTexts } }

InitRoute ==
    /\ ServiceIdle /\ env_keys_set
    /\ call_args \in RouteConversations
    /\ call_result = NotCalled
    /\ json_error_caught = TRUE
    /\ http_request = NoHttp
    /\ tool_result = NoHttp

\* process(messages, user_id, pod_id), lines 329-380
ProcessRoute ==
    /\ call_result = NotCalled
    /\ call_result' =
          LET route == IF ProcessValidation(call_args, UserU, PodP) = ""
                       THEN Route(call_args.items) ELSE "invalid"
          IN  [route |-> route,
               \* last_user_message at the keyword test of line 374
               keyword_text |->
                   IF route \in {"fallback", "agent"}
                   THEN RoutedText(LastUserMessage(call_args.items))
                   ELSE <<>>,
               \* input=last_user_message of runner.run_sync, line 384
               agent_input |->
                   IF route = "agent" THEN AgentInput(call_args.items)
                   ELSE <<>>]
    /\ UNCHANGED <<call_args, json_error_caught, http_request, tool_result>>
    /\ UNCHANGED service

NextRoute == ProcessRoute

SpecRoute == InitRoute /\ [][NextRoute]_vars

\* the content of the last message of the conversation whose role is user
RawLastUserMessage ==
    LET items == call_args.items
        users == {i \in 1..Len(items) : items[i].role = "user"}
        last == CHOOSE i \in users : \A j \in users : j <= i
    IN  items[last].content

\* text contains c-a-m-p-a-i-g-n, each letter in either case
ContainsCampaignAnyCase(text) ==
    \E i \in 0..(Len(text) - 8) :
        \A j \in 1..8 :
            text[i + j] \in {LowerCampaign[j], UpperCampaign[j]}

\* text without the characters 0-8, 11, 12, 14-31 and 127
WithoutControls(text) ==
    SelectSeq(text, LAMBDA c : c \notin ((0..8) \cup {11, 12} \cup (14..31) \cup {127}))

\* C9 as claimed: the fallback path is selected if and only if the raw last
\* user message contains "campaign" in any letter case.
C9_AsClaimed ==
    call_result # NotCalled =>
        (call_result.route = "fallback"
            <=> ContainsCampaignAnyCase(RawLastUserMessage))

\* C9 amended: the fallback path is selected if and only if the last user
\* message with its control characters removed contains "campaign" in any
\* letter case; a raw message that contains it always selects the path.
C9_FallbackTrigger ==
    call_result # NotCalled =>
        /\ call_result.route = "fallback"
              <=> ContainsCampaignAnyCase(WithoutControls(RawLastUserMessage))
        /\ ContainsCampaignAnyCase(RawLastUserMessage)
              => call_result.route = "fallback"

\* a last user message with a control character inside the keyword selected
\* the fallback path
C9_Witness ==
    /\ call_result # NotCalled
    /\ call_result.route = "fallback"
    /\ ~ContainsCampaignAnyCase(RawLastUserMessage)
    /\ Len(call_args.items) = 2

\* C24: turn selection. For every valid conversation the text the keyword
\* test sees, and the text the agent is given, is the sanitized content
\* (control characters removed, then stripped) of the last message whose role
\* is 'user', never an earlier user message and never an assistant or system
\* message.
C24_TurnSelection ==
    (call_result # NotCalled /\ call_result.route \in {"fallback", "agent"}) =>
        /\ call_result.keyword_text = Strip(WithoutControls(RawLastUserMessage))
        /\ call_result.route = "agent" =>
               call_result.agent_input = call_result.keyword_text
        /\ call_result.route = "fallback" <=>
               \E k \in CAMPAIGN_KEYWORDS :
                   Contains(Lower(call_result.keyword_text), k)

\* the agent was given the sanitized last user message of a conversation that
\* has an earlier user message with the keyword in it
C24_Witness ==
    /\ call_result # NotCalled
    /\ call_result.route = "agent"
    /\ Len(call_args.items) = 2
    /\ call_args.items[1] = Msg("user", CampaignText)
    /\ call_result.agent_input # call_args.items[2].content
    /\ call_result.agent_input # <<>>

\* C29: the agent is never run with an empty input. For every valid
\* conversation whose selected user message is empty after sanitization (it
\* is empty, or only whitespace or control characters), process() returns
\* the fixed "I didn't receive a message" reply and runs neither the agent
\* nor the fallback path.
C29_NoEmptyAgentInput ==
    (call_result # NotCalled /\ call_result.route # "invalid") =>
        /\ Strip(WithoutControls(RawLastUserMessage)) = <<>>
              => call_result.route = "empty"
        /\ call_result.route = "agent" => call_result.agent_input # <<>>

(***************************************************************************)
(* _handle_campaign_query called on its own against data stores of every   *)
(* behaviour; call_args is the token and what the store does.              *)
(***************************************************************************)
\* most rows the campaigns table returns
MaxCampaigns == 2

\* a token the data store accepts and the empty token of server.py
FallbackTokens == {<<"tokU">>, ServerAuthToken}

\* the data stores: one per first failing call, and for an accepted token
\* every list of rows up to MaxCampaigns
DataStores(auth_token) ==
    FailingStores(auth_token)
    \cup (IF auth_token \in ValidTokens
          THEN { Store(rows) : rows \in SeqsUpTo(CampaignRows, MaxCampaigns) }
          ELSE {})

InitFallback ==
    /\ ServiceIdle /\ env_keys_set
    /\ \E auth_token \in FallbackTokens :
          call_args \in [auth_token : {auth_token}, ext : DataStores(auth_token)]
    /\ call_result = NotCalled
    /\ json_error_caught = TRUE
    /\ http_request = NoHttp
    /\ tool_result = NoHttp

\* _handle_campaign_query(auth_token), lines 153-191
HandleCampaignQuery ==
    /\ call_result = NotCalled
    /\ call_result' = handle_campaign_query(call_args.ext)
    /\ UNCHANGED <<call_args, json_error_caught, http_request, tool_result>>
    /\ UNCHANGED service

NextFallback == HandleCampaignQuery

SpecFallback == InitFallback /\ [][NextFallback]_vars

\* the query made no call on the campaigns, leads or posts tables
NoRecordsFetched ==
    \A i \in 1..Len(call_result.queries) :
        call_result.queries[i] \notin {"campaigns", "leads", "posts"}

\* C13: when the client is created and auth.get_user resolves no user (it
\* returns none or raises), _handle_campaign_query returns the re-authenticate
\* message, raises nothing and fetches no campaign, lead or post records.
C13_AuthFailureMessage ==
    (/\ call_result # NotCalled
     /\ call_args.ext.client = "ok"
     /\ call_args.ext.get_user \in {"none", "raise"})
        => /\ ~call_result.raised
           /\ call_result.text =
                <<"I couldn't authenticate your session. Please refresh the page and try again.">>
           /\ NoRecordsFetched

\* the empty token was refused by auth.get_user and the query answered
C13_Witness ==
    /\ call_result # NotCalled
    /\ call_args.auth_token = <<>>
    /\ call_args.ext.get_user = "none"
    /\ call_result.queries = <<"create_client", "auth.get_user">>
    /\ call_result.text = AUTH_MESSAGE

\* C28: authentication errors of the fallback path are told apart from data
\* store and network errors. The re-authenticate message is returned only
\* when auth.get_user did not accept the token; a failure after the user was
\* authenticated, such as the users-table lookup of the client id raising, is
\* not reported as an authentication failure.
C28_AuthMessageOnlyForAuthFailure ==
    (call_result # NotCalled /\ call_result.text = AUTH_MESSAGE) =>
        call_args.ext.get_user \in {"none", "raise"}

\* some call of the query failed: creating the client, resolving the user,
\* the users-table lookup, the campaigns fetch or a count query of a campaign
FallbackCallFailed ==
    LET ext == call_args.ext
    IN  \/ ext.client = "raise"
        \/ ext.get_user \in {"none", "raise"}
        \/ ext.users_row = "raise"
        \/ ext.fetch = "raise"
        \/ \E i \in 1..Len(ext.rows) :
              \/ ext.rows[i].leads.kind = "raise"
              \/ ext.rows[i].posts.kind = "raise"

\* C30: the fallback path never raises to its caller. Whatever fails while
\* the client is created, the user resolved or the campaigns and their lead
\* and post counts fetched, also part-way through the per-campaign loop,
\* _handle_campaign_query returns a non-empty text, and that text is one of
\* the fixed replies, never a list of part of the campaigns.
C30_FallbackNeverRaises ==
    call_result # NotCalled =>
        /\ ~call_result.raised
        /\ call_result.text # <<>>
        /\ FallbackCallFailed =>
              call_result.text \in {AUTH_MESSAGE, FAILURE_MESSAGE}

\* the counts of the first campaign were read and the post count of the
\* second raised; the reply is the generic failure message
C30_Witness ==
    /\ call_result # NotCalled
    /\ Len(call_args.ext.rows) = 2
    /\ call_args.ext.rows[1].leads.kind = "count"
    /\ call_args.ext.rows[1].posts.kind = "count"
    /\ call_args.ext.rows[2].leads.kind = "count"
    /\ call_args.ext.rows[2].posts.kind = "raise"
    /\ call_result.queries =
          <<"create_client", "auth.get_user", "users", "campaigns",
            "leads", "posts", "leads", "posts">>
    /\ call_result.text = FAILURE_MESSAGE

\* C14: when the user is resolved and the users table has no row or no
\* client_id for it, the reply is the account-information message, which is
\* neither the re-authenticate nor the generic failure message, and no
\* campaign records are fetched.
C14_AccountMessage ==
    (/\ call_result # NotCalled
     /\ call_args.ext.client = "ok"
     /\ call_args.ext.get_user = "user"
     /\ call_args.ext.users_row \in {"no_row", "null_client"})
        => /\ ~call_result.raised
           /\ call_result.text =
                <<"I couldn't find your account information. Please contact support.">>
           /\ call_result.text \notin {AUTH_MESSAGE, FAILURE_MESSAGE}
           /\ NoRecordsFetched

\* the users table had a row without client_id and the query answered
C14_Witness ==
    /\ call_result # NotCalled
    /\ call_args.ext.get_user = "user"
    /\ call_args.ext.users_row = "null_client"
    /\ call_result.queries = <<"create_client", "auth.get_user", "users">>
    /\ call_result.text = ACCOUNT_MESSAGE

(***************************************************************************)
(* _format_campaigns_response called on lists of campaign records          *)
(***************************************************************************)
\* the records _fetch_campaigns_with_metrics builds
CampaignRecords ==
    [name : {"A", "B"}, status : {"active", "draft"}, leads : {0, 10},
     posts : {5}]

InitFormat ==
    /\ ServiceIdle /\ env_keys_set
    /\ call_args \in SeqsUpTo(CampaignRecords, MaxCampaigns)
    /\ call_result = NotCalled
    /\ json_error_caught = TRUE
    /\ http_request = NoHttp
    /\ tool_result = NoHttp

\* _format_campaigns_response(campaigns), lines 133-151
FormatCampaigns ==
    /\ call_result = NotCalled
    /\ call_result' = [text |-> format_campaigns_response(call_args)]
    /\ UNCHANGED <<call_args, json_error_caught, http_request, tool_result>>
    /\ UNCHANGED service

NextFormat == FormatCampaigns

SpecFormat == InitFormat /\ [][NextFormat]_vars

\* C15: for an empty list the text is exactly the no-campaigns message; for
\* n >= 1 records it is a header stating n followed by exactly n entries,
\* the i-th numbered i and showing the i-th record's name, status, leads and
\* posts.
C15_FormatCampaigns ==
    call_result # NotCalled =>
        LET n == Len(call_args)
            text == call_result.text
        IN  IF n = 0
            THEN text = <<"You don't have any campaigns yet. Would you like to create one?">>
            ELSE /\ Len(text) = 3 + 11 * n
                 /\ SubSeq(text, 1, 3)
                      = <<"You have ", ToString(n), " campaign(s):\n\n">>
                 /\ \A i \in 1..n :
                      SubSeq(text, 11 * i - 7, 11 * i + 3) =
                        << ToString(i), ". **", call_args[i].name, "** (",
                           call_args[i].status, ")\n", "   - Leads: ",
                           ToString(call_args[i].leads), ", Posts: ",
                           ToString(call_args[i].posts), "\n" >>

\* two different records were formatted, the second as entry 2
C15_Witness ==
    /\ call_result # NotCalled
    /\ Len(call_args) = 2
    /\ call_args[1] # call_args[2]
    /\ call_result.text[2] = "2"
    /\ call_result.text[15] = "2"
    /\ call_result.text[17] = call_args[2].name

(***************************************************************************)
(* core/runner.py: one run of main() in its own process. call_args is the  *)
(* environment the process starts with, call_result the state of the run.  *)
(***************************************************************************)
RequiredKeys ==
    {"user_id", "pod_id", "messages", "api_base_url", "mem0_key", "openai_key",
     "auth_token"}

\* a token the data store refuses
BadToken == <<"bad">>

\* HGC_CONTEXT with every key present and truthy
FullContext(message, user_id, auth_token) ==
    [set |-> TRUE, parses |-> TRUE, present |-> RequiredKeys, falsy |-> {},
     message |-> message, user_id |-> user_id, pod_id |-> PodP,
     auth_token |-> auth_token]

\* the environments: HGC_CONTEXT unset, not JSON, with one key absent, with
\* only user_id, with one value empty, and complete ones
Environments ==
    { [FullContext(Hi, UserU, <<"tokU">>) EXCEPT !.set = FALSE],
      [FullContext(Hi, UserU, <<"tokU">>) EXCEPT !.parses = FALSE],
      [FullContext(Hi, UserU, <<"tokU">>) EXCEPT !.present = {"user_id"}] }
    \cup { [FullContext(Hi, UserU, <<"tokU">>) EXCEPT !.present = RequiredKeys \ {k}] :
             k \in RequiredKeys }
    \cup { [FullContext(Hi, UserU, <<"tokU">>) EXCEPT !.falsy = {k}] :
             k \in RequiredKeys }
    \cup { FullContext(m, u, a) :
             m \in {Hi, CampaignText, TooLong}, u \in {UserU, Semicolon},
             a \in {<<"tokU">>, BadToken} }

\* lines 34-51 without the all([...]) test
read_context_unchecked(env) ==
    IF ~env.set THEN [type |-> "ValueError", error |-> "HGC_CONTEXT environment variable not set"]
    ELSE IF ~env.parses THEN [type |-> "JSONDecodeError", error |-> "json"]
    ELSE IF (RequiredKeys \ {"messages"}) \ env.present # {}
    THEN [type |-> "KeyError", error |-> "key"]
    ELSE [type |-> "", error |-> ""]

\* lines 34-51: the exception raised while the context is read, type ""
\* when there is none
read_context(env) ==
    IF ~env.set THEN [type |-> "ValueError", error |-> "HGC_CONTEXT environment variable not set"]
    ELSE IF ~env.parses THEN [type |-> "JSONDecodeError", error |-> "json"]
    ELSE IF (RequiredKeys \ {"messages"}) \ env.present # {}
    THEN [type |-> "KeyError", error |-> "key"]
    ELSE IF "messages" \notin env.present \/ env.falsy # {}
    THEN [type |-> "ValueError", error |-> "Missing required context fields"]
    ELSE [type |-> "", error |-> ""]

\* a handler that also catches SystemExit
CaughtByBareExcept ==
    {"ValueError", "JSONDecodeError", "KeyError", "Exception", "AgentError",
     "SystemExit"}

\* the exceptions "except Exception" catches; SystemExit is not one
CaughtByExceptException ==
    {"ValueError", "JSONDecodeError", "KeyError", "Exception", "AgentError"}

\* the try block of process() around the agent run, lines 382-417, with the
\* except clause returning a text instead of raising
process_agent_swallowing(run) ==
    IF run = "raise"
    THEN [raised |-> "", text |-> <<"error">>, agent_runs |-> 1, run |-> run]
    ELSE [raised |-> "", text |-> <<"final_output">>, agent_runs |-> 1,
          run |-> run]

\* the try block of process() around the agent run, lines 382-417: run_sync
\* is called once; what it raises is re-raised
process_agent(run) ==
    IF run = "raise"
    THEN [raised |-> "AgentError", text |-> <<>>, agent_runs |-> 1, run |-> run]
    ELSE [raised |-> "", text |-> <<"final_output">>, agent_runs |-> 1,
          run |-> run]

\* what process() can end with on a fresh orchestrator for the context; run
\* is what run_sync did, "none" when the agent was not run
ProcessOutcomes(env) ==
    LET messages == [isList |-> TRUE, items |-> <<Msg("user", env.message)>>]
        pre == ProcessPrologue(messages, env.user_id, env.pod_id, NoKey)
        route == Route(messages.items)
    IN  IF pre.error # ""
        THEN {[raised |-> "ValueError", text |-> <<>>, agent_runs |-> 0,
               run |-> "none"]}
        ELSE IF route = "empty"
        THEN {[raised |-> "", text |-> EMPTY_MESSAGE, agent_runs |-> 0,
               run |-> "none"]}
        ELSE IF route = "fallback"
        THEN {[raised |-> "", text |-> handle_campaign_query(ext).text,
               agent_runs |-> 0, run |-> "none"] :
                 ext \in FallbackExternal(env.auth_token)}
        ELSE {process_agent(run) : run \in {"return", "raise"}}

\* the run before main() starts; exit_status -1 while the process runs;
\* stdout and stderr hold the JSON objects printed (the log lines that go to
\* stderr are left out)
RunnerStart ==
    [pc |-> "read", constructor_calls |-> 0, process_calls |-> 0,
     agent_runs |-> 0, run |-> "none",
     pending |-> [type |-> "", error |-> ""], text |-> <<>>,
     stdout |-> <<>>, stderr |-> <<>>, exit_status |-> -1]

InitRunner ==
    /\ ServiceIdle /\ env_keys_set
    /\ call_args \in Environments
    /\ call_result = RunnerStart
    /\ json_error_caught = TRUE
    /\ http_request = NoHttp
    /\ tool_result = NoHttp

\* lines 34-51: read HGC_CONTEXT, take the fields, test that all are truthy
RunnerRead ==
    /\ call_result.pc = "read"
    /\ LET e == read_context(call_args)
       IN  call_result' =
             IF e.type # ""
             THEN [call_result EXCEPT !.pc = "except", !.pending = e]
             ELSE [call_result EXCEPT !.pc = "construct"]
    /\ UNCHANGED <<call_args, json_error_caught, http_request, tool_result>>
    /\ UNCHANGED service

\* lines 54-59: HGCOrchestrator(...); the MemoryClient constructor may raise
RunnerConstruct ==
    /\ call_result.pc = "construct"
    /\ \E outcome \in {"ok", "raise"} :
          call_result' =
             IF outcome = "raise"
             THEN [call_result EXCEPT !.pc = "except",
                                      !.constructor_calls = @ + 1,
                                      !.pending = [type |-> "Exception",
                                                   error |-> "constructor"]]
             ELSE [call_result EXCEPT !.pc = "process",
                                      !.constructor_calls = @ + 1]
    /\ UNCHANGED <<call_args, json_error_caught, http_request, tool_result>>
    /\ UNCHANGED service

\* lines 62-66: orchestrator.process(messages, user_id, pod_id)
RunnerProcess ==
    /\ call_result.pc = "process"
    /\ \E out \in ProcessOutcomes(call_args) :
          call_result' =
             IF out.raised # ""
             THEN [call_result EXCEPT !.pc = "except",
                                      !.process_calls = @ + 1,
                                      !.agent_runs = @ + out.agent_runs,
                                      !.run = out.run,
                                      !.pending = [type |-> out.raised,
                                                   error |-> "process"]]
             ELSE [call_result EXCEPT !.pc = "print",
                                      !.process_calls = @ + 1,
                                      !.agent_runs = @ + out.agent_runs,
                                      !.run = out.run,
                                      !.text = out.text]
    /\ UNCHANGED <<call_args, json_error_caught, http_request, tool_result>>
    /\ UNCHANGED service

\* lines 69-74: print(json.dumps(result))
RunnerPrintResult ==
    /\ call_result.pc = "print"
    /\ call_result' =
          [call_result EXCEPT !.pc = "sys_exit",
                              !.stdout = Append(@, [content |-> call_result.text,
                                                    memory_stored |-> TRUE])]
    /\ UNCHANGED <<call_args, json_error_caught, http_request, tool_result>>
    /\ UNCHANGED service

\* line 75: sys.exit(0) raises SystemExit inside the try block
RunnerSysExit ==
    /\ call_result.pc = "sys_exit"
    /\ call_result' =
          IF "SystemExit" \in CaughtByExceptException
          THEN [call_result EXCEPT !.pc = "except",
                                   !.pending = [type |-> "SystemExit",
                                                error |-> "0"]]
          ELSE [call_result EXCEPT !.pc = "exited", !.exit_status = 0]
    /\ UNCHANGED <<call_args, json_error_caught, http_request, tool_result>>
    /\ UNCHANGED service

\* lines 77-84: the error object goes to stderr, then sys.exit(1)
RunnerExcept ==
    /\ call_result.pc = "except"
    /\ call_result' =
          [call_result EXCEPT !.pc = "exited", !.exit_status = 1,
                              !.stderr = Append(@, call_result.pending)]
    /\ UNCHANGED <<call_args, json_error_caught, http_request, tool_result>>
    /\ UNCHANGED service

NextRunner ==
    \/ RunnerRead
    \/ RunnerConstruct
    \/ RunnerProcess
    \/ RunnerPrintResult
    \/ RunnerSysExit
    \/ RunnerExcept

SpecRunner == InitRunner /\ [][NextRunner]_vars

\* HGC_CONTEXT is unset or lacks one of the seven required keys
ContextIncomplete ==
    \/ ~call_args.set
    \/ call_args.parses
         /\ \E k \in {"user_id", "pod_id", "messages", "api_base_url",
                      "mem0_key", "openai_key", "auth_token"} :
               k \notin call_args.present

\* C16: when HGC_CONTEXT is unset or a required key is absent, the runner
\* never constructs an orchestrator, never calls process(), writes nothing to
\* stdout, and its run ends with the error object and exit status 1.
C16_RunnerPrecondition ==
    ContextIncomplete =>
        /\ call_result.constructor_calls = 0
        /\ call_result.process_calls = 0
        /\ call_result.stdout = <<>>
        /\ call_result.exit_status # 0
        /\ call_result.pc = "exited" =>
              call_result.exit_status = 1 /\ Len(call_result.stderr) = 1

\* a run whose context lacks only the messages key has ended in failure
C16_Witness ==
    /\ call_args.set /\ call_args.parses
    /\ call_args.present = RequiredKeys \ {"messages"}
    /\ call_result.pc = "exited"
    /\ call_result.stderr =
         <<[type |-> "ValueError", error |-> "Missing required context fields"]>>

C18_AgentFailurePropagates ==
    call_result.run = "raise"
        => /\ call_result.agent_runs = 1
           /\ call_result.pc \in {"except", "exited"}
           /\ call_result.text = <<>>
           /\ call_result.process_calls = 1
           /\ call_result.pending.type = "AgentError"
           /\ call_result.stdout = <<>>
           /\ call_result.pc = "exited" =>
                 /\ call_result.exit_status = 1
                 /\ call_result.stderr =
                      <<[type |-> "AgentError", error |-> "process"]>>

\* the agent raised and the run has ended in failure
C18_Witness ==
    /\ call_result.pc = "exited"
    /\ call_result.run = "raise"
    /\ call_result.agent_runs = 1
    /\ call_result.pending.type = "AgentError"
    /\ call_result.exit_status = 1

(***************************************************************************)
(* The search_memory tool called on its own: call_args is the scope key of *)
(* the calling thread and what memory.search does.                         *)
(***************************************************************************)
\* most results the backend returns in the responses tried
MaxResults == 2

Memories == {"m1", "m2", "m3"}

\* memory.search raises, returns a list, or returns {'results': [...]}
SearchResponses ==
    {[kind |-> "raise", results |-> <<>>]}
    \cup [kind : {"list", "dict"}, results : SeqsUpTo(Memories, MaxResults)]

\* search_memory without the test of the scope key
search_memory_reply_unguarded(key, result) ==
    IF result.kind = "raise"
    THEN [raised |-> FALSE, queried |-> TRUE, value |-> <<>>]
    ELSE [raised |-> FALSE, queried |-> TRUE, value |-> result.results]

\* search_memory, lines 206-236, as the agent sees it: whether it raised,
\* whether memory.search was called, and the list returned
search_memory_reply(key, result) ==
    IF key = NoKey
    THEN [raised |-> FALSE, queried |-> FALSE, value |-> <<>>]
    ELSE IF result.kind = "raise"
    THEN [raised |-> FALSE, queried |-> TRUE, value |-> <<>>]
    ELSE IF result.kind = "dict"
    THEN [raised |-> FALSE, queried |-> TRUE, value |-> result.results]
    ELSE [raised |-> FALSE, queried |-> TRUE, value |-> result.results]

InitRecall ==
    /\ ServiceIdle /\ env_keys_set
    /\ call_args \in [key : {NoKey, MemoryKey(PodP, UserU), MemoryKey(PodP, UserV)},
                      result : SearchResponses]
    /\ call_result = NotCalled
    /\ json_error_caught = TRUE
    /\ http_request = NoHttp
    /\ tool_result = NoHttp

\* the agent calls search_memory(query)
SearchMemoryCall ==
    /\ call_result = NotCalled
    /\ call_result' = search_memory_reply(call_args.key, call_args.result)
    /\ UNCHANGED <<call_args, json_error_caught, http_request, tool_result>>
    /\ UNCHANGED service

NextRecall == SearchMemoryCall

SpecRecall == InitRecall /\ [][NextRecall]_vars

\* C20: search_memory never raises; it returns the empty list without
\* calling the backend when the scope key is unset, the empty list when the
\* backend fails or has no match, and otherwise the backend's results in the
\* order received.
C20_RecallNeverRaises ==
    call_result # NotCalled =>
        /\ ~call_result.raised
        /\ call_args.key = <<>> =>
              call_result.value = <<>> /\ ~call_result.queried
        /\ (call_args.result.kind = "raise" \/ call_args.result.results = <<>>)
              => call_result.value = <<>>
        /\ (call_args.key # <<>> /\ call_args.result.kind # "raise")
              => /\ call_result.queried
                 /\ call_result.value = call_args.result.results

\* two different memories came back in the order the backend gave them
C20_Witness ==
    /\ call_result # NotCalled
    /\ call_args.key # <<>>
    /\ call_args.result.kind = "dict"
    /\ call_result.value = <<"m2", "m1">>

(***************************************************************************)
(* The save_memory tool called again and again on one thread: call_args is *)
(* the scope key of the thread, call_result the last reply and the records *)
(* the backend holds.                                                      *)
(***************************************************************************)
RememberContents == {"c1", "c2", "c3", "c4"}

NoReply == [success |-> FALSE, error |-> "", saved |-> "", raised |-> FALSE]

InitRemember ==
    /\ ServiceIdle /\ env_keys_set
    /\ call_args \in {NoKey, MemoryKey(PodP, UserU), MemoryKey(PodP, UserV)}
    /\ call_result = [calls |-> 0, content |-> "", backend |-> "none",
                      reply |-> NoReply, store |-> {}]
    /\ json_error_caught = TRUE
    /\ http_request = NoHttp
    /\ tool_result = NoHttp

\* the agent calls save_memory(content)
SaveMemoryCall ==
    /\ \E content \in RememberContents, backend \in {"ok", "raise"} :
         LET r == save_memory(call_args, content, backend)
         IN  call_result' =
               [calls |-> 1, content |-> content, backend |-> backend,
                reply |-> [success |-> r.success, error |-> r.error,
                           saved |-> r.saved, raised |-> r.raised],
                store |-> IF r.added
                          THEN call_result.store
                               \cup {[user_id |-> r.user_id, content |-> content]}
                          ELSE call_result.store]
    /\ UNCHANGED <<call_args, json_error_caught, http_request, tool_result>>
    /\ UNCHANGED service

NextRemember == SaveMemoryCall

SpecRemember == InitRemember /\ [][NextRemember]_vars

\* C21: save_memory never raises; when the backend accepts the record the
\* reply is a success that carries the content saved; when the backend fails
\* the reply is {success: false, error}; when the scope key is unset the
\* reply is a failure and the backend holds no record.
C21_RememberNeverRaises ==
    call_result.calls = 1 =>
        /\ ~call_result.reply.raised
        /\ (call_args # <<>> /\ call_result.backend = "ok")
              => /\ call_result.reply.success
                 /\ call_result.reply.saved = call_result.content
                 /\ [user_id |-> call_args, content |-> call_result.content]
                       \in call_result.store
        /\ call_result.backend = "raise"
              => ~call_result.reply.success /\ call_result.reply.error # ""
        /\ call_args = <<>>
              => /\ ~call_result.reply.success
                 /\ call_result.reply.error # ""
                 /\ call_result.store = {}

\* with no scope key a save was refused although the backend was up
C21_Witness ==
    /\ call_result.calls = 1
    /\ call_args = <<>>
    /\ call_result.backend = "ok"
    /\ call_result.reply.error = "No memory key"
    /\ call_result.store = {}

(***************************************************************************)
(* Properties of the service                                               *)
(***************************************************************************)
\* the scope key process() formats for the request a thread is handling
RequestKey(t) == MemoryKey(request[t].pod_id, request[t].user_id)

\* the bearer token that came with the request a thread is handling
RequestToken(t) == HeaderToken(request[t].authorization)

\* C1: memory isolation. Every record is written with user_id equal to the
\* scope key that was current when it was saved, every search filters on the
\* current scope key, and a search made under key B returns no record that
\* was saved under another key A.
C1_MemoryIsolation ==
    /\ \A r \in mem0 : r.user_id = r.saved_under
    /\ \A t \in Threads :
          last_memory_call[t].op # "none" =>
             /\ last_memory_call[t].key = last_memory_call[t].scope
             /\ \A r \in last_memory_call[t].results :
                   r.saved_under = last_memory_call[t].scope

\* a search under one key found a record while a record saved under another
\* key was in the store, and left that one out
C1_Witness ==
    \E t \in Threads :
        /\ last_memory_call[t].op = "search"
        /\ last_memory_call[t].results # {}
        /\ \E r \in mem0 : r.saved_under # last_memory_call[t].scope

\* C2: the scope cell is request-local. Whatever the interleaving of the two
\* threads, each memory tool call a thread makes for its request uses the key
\* pod::user of that request.
C2_ScopeCellIsRequestLocal ==
    \A t \in Threads :
        last_memory_call[t].op # "none" => last_memory_call[t].key = RequestKey(t)

\* both threads are inside an agent run for different users and each has made
\* a memory call
C2_Witness ==
    /\ \A t \in Threads :
          pc[t] = "tool_decision" /\ last_memory_call[t].op # "none"
    /\ RequestKey("t1") # RequestKey("t2")

\* C3: the bearer token is request-scoped. Every token the fallback path or a
\* tenant-data tool uses while a request is handled is the token of that
\* request's Authorization header.
C3_TokenIsRequestScoped ==
    \A t \in Threads : \A tok \in token_used[t] : tok = RequestToken(t)

\* C4: a request runs the agent and the tools that were built for it, never
\* those another request built.
C4_RequestRunsItsOwnAgent ==
    \A t \in Threads :
        pc[t] = "tool_decision" =>
            running_agent[t] = NewAgent(t, request[t].serial)

\* C23: constructing the orchestrator creates the agent "RevOS Intelligence"
\* with 8 tools (2 memory tools and 6 RevOS tools): once the orchestrator
\* exists, the agent exists, before any scope key is set or any request is
\* processed.
C23_AgentBuiltAtConstruction ==
    orchestrator_instance = "cached" =>
        /\ agent # NoAgent
        /\ agent.name = "RevOS Intelligence"
        /\ Len(agent.tools) = 8

\* C25: routing exclusivity. Within one process() call at most one of the
\* fallback path and the agent is invoked: a request the keyword match sends
\* to the fallback never runs the agent (nor its memory tools), and a request
\* that runs the agent was not routed to the fallback and makes no direct
\* fallback query.
C25_RoutingExclusive ==
    \A t \in Threads :
        /\ ~({"fallback", "agent"} \subseteq effects[t])
        /\ "fallback" \in effects[t] =>
               /\ Route(ChatMessages(request[t]).items) = "fallback"
               /\ running_agent[t] = NoAgent
               /\ "memory" \notin effects[t]
        /\ "agent" \in effects[t] =>
               Route(ChatMessages(request[t]).items) = "agent"

\* one request has been answered by the fallback path while another is inside
\* an agent run
C25_Witness ==
    \E t, u \in Threads :
        /\ pc[t] = "returned" /\ effects[t] = {"fallback"}
        /\ pc[u] = "tool_decision" /\ "agent" \in effects[u]

\* C26: memory records are never created implicitly. Every step that changes
\* the memory store is a save_memory call of a running agent and adds exactly
\* one record under that call's key; no step removes or replaces a record, so
\* validation failures, the empty-message reply, the fallback path,
\* search_memory and the front door never write.
C26_OnlySaveMemoryWrites ==
    [][ mem0' # mem0 =>
          /\ mem0 \subseteq mem0'
          /\ Cardinality(mem0' \ mem0) = 1
          /\ \E t \in Threads :
                /\ pc[t] = "tool_decision"
                /\ last_memory_call'[t].op = "save"
                /\ \A r \in mem0' \ mem0 :
                      /\ r.saved_under = last_memory_call'[t].scope
                      /\ r.user_id = last_memory_call'[t].key ]_vars

\* two records are stored, one thread has searched them and the other has
\* been answered by the fallback path
C26_Witness ==
    /\ Cardinality(mem0) >= 2
    /\ \E t, u \in Threads :
          /\ last_memory_call[t].op = "search"
          /\ pc[u] = "returned" /\ effects[u] = {"fallback"}

\* C27 as claimed: from awaiting-tool-decision every tool execution returns
\* to awaiting-tool-decision, and the run ends in the final answer, after
\* which process() returns exactly one text.
C27_AsClaimed ==
    [][ \A t \in Threads :
          pc[t] = "tool_decision" =>
             \/ pc'[t] = "tool_decision"
             \/ pc'[t] = "returned" /\ Len(reply'[t]) = 1 ]_vars

\* C27 amended: from awaiting-tool-decision every tool execution, whatever
\* its result, returns to awaiting-tool-decision with no reply yet; the run
\* ends either in the final answer, after which process() returns exactly one
\* text, or by raising, after which process() re-raises once and returns no
\* text.
C27_AgentRun ==
    [][ \A t \in Threads :
          pc[t] = "tool_decision" =>
             \/ pc'[t] = "tool_decision" /\ reply'[t] = <<>> /\ raised'[t] = raised[t]
             \/ /\ pc'[t] = "returned"
                /\ Len(reply'[t]) = 1
                /\ raised'[t] = <<0, "">>
             \/ /\ pc'[t] = "raised"
                /\ raised'[t] = <<1, "Exception">>
                /\ reply'[t] = <<>> ]_vars

\* a run made a memory call that the backend failed and a tenant-data call,
\* and then ended by raising
C27_Witness ==
    \E t \in Threads :
        /\ pc[t] = "raised"
        /\ raised[t] = <<1, "Exception">>
        /\ effects[t] = {"agent", "memory"}
        /\ token_used[t] # {}

\* C8: a validation failure aborts fast. When process() has raised ValueError
\* it has raised once, the thread's scope cell is what it was when process()
\* was entered, and no memory call, no tenant-data or fallback query and no
\* agent run has been made for the request.
C8_ValidationFailsFast ==
    \A t \in Threads :
        (pc[t] = "raised" /\ raised[t][2] = "ValueError") =>
            /\ raised[t][1] = 1
            /\ memory_key_storage[t] = key_at_entry[t]
            /\ effects[t] = {}
            /\ token_used[t] = {}
            /\ last_memory_call[t] = NoCall
            /\ running_agent[t] = NoAgent

\* the last of the three validations failed on a thread whose cell holds the
\* key of an earlier request
C8_Witness ==
    \E t \in Threads :
        /\ pc[t] = "raised"
        /\ raised[t] = <<1, "ValueError">>
        /\ ~validate_pod_id(request[t].pod_id)[1]
        /\ memory_key_storage[t] # NoKey

\* C19: a request whose process() call returned a text is answered 200 with
\* that text; 500 is answered only when obtaining the orchestrator or
\* processing failed.
C19_FrontDoorResponse ==
    [][\A t \in Threads :
          (pc[t] \in {"returned", "raised", "failed"} /\ pc'[t] = "idle") =>
              /\ pc[t] = "returned" => response'[t] = 200
              /\ response'[t] = 500 => pc[t] \in {"raised", "failed"}]_vars

====
